---- MODULE Spec2Model ----
(***************************************************************************)
(* A model of augur/align.py: the reference trimmer (strip_non_reference), *)
(* the insertion cataloguer (analyse_insertions), the finalizer            *)
(* (prettify_alignment), the merge planner (prune_seqs_matching_alignment) *)
(* and the pipeline run() with its duplicate check and cleanup list.       *)
(*                                                                         *)
(* Strings are tuples of one-character strings, so that prefixes, slices   *)
(* and column projections are computed and not assumed.  A sequence record *)
(* (Bio.SeqRecord) is [id, name, description, seq].                        *)
(***************************************************************************)
EXTENDS Integers, Sequences, FiniteSets, TLC

\* ------------------------------------------------------------------ bounds
\* rows of an alignment given to strip_non_reference / prune / prettify
MaxRows == 2
\* columns of an alignment given to strip_non_reference
MaxWidth == 3
\* columns of a reference mask given to analyse_insertions
MaxMask == 5
\* residues of a reference sequence, columns of an existing alignment, in run
MaxLen == 2

\* ----------------------------------------------------------------- strings
RECURSIVE SeqsOver(_, _)
\* all tuples over alphabet of exactly length n
SeqsOver(alphabet, n) == IF n = 0 THEN {<<>>} ELSE {Append(s, c) : s \in SeqsOver(alphabet, n - 1), c \in alphabet}

\* all tuples over S of length lo..hi
SeqsBetween(S, lo, hi) == UNION {SeqsOver(S, n) : n \in lo..hi}

\* str.startswith
StartsWith(s, prefix) == Len(s) >= Len(prefix) /\ SubSeq(s, 1, Len(prefix)) = prefix

\* s[k:]
DropFirst(s, k) == SubSeq(s, k + 1, Len(s))

RECURSIVE Filter(_, _)
\* the elements of s that are not in the set drop, in order
Filter(s, drop) == IF s = <<>> THEN <<>> ELSE (IF Head(s) \in drop THEN <<>> ELSE <<Head(s)>>) \o Filter(Tail(s), drop)

\* the set of elements of a tuple
Range(s) == {s[k] : k \in 1..Len(s)}

\* a record as AlignIO.read / SeqIO.parse builds it from a fasta header that is
\* just the identifier: id, name and description all repeat it
Rec(name, seq) == [id |-> name, name |-> name, description |-> name, seq |-> seq]

\* ------------------------------------------------- analyse_insertions
\* the value of _open_idx while no insertion run is open (Python's False,
\* which `is False` tells apart from the column index 0)
NoOpen == -1

\* the loop state with _ref_idx started at the first reference position
ScanInitFromZero == [open |-> NoOpen, ref |-> 0, coords |-> <<>>]

\* the loop state before the first column: _open_idx, _ref_idx, insertion_coords
ScanInit == [open |-> NoOpen, ref |-> -1, coords |-> <<>>]

\* `not in_ref and not _open_idx`: a run opened at column 0 counts as not open
OpensRunTreatingZeroAsFalse(st, in_ref) == ~in_ref /\ (st.open = NoOpen \/ st.open = 0)

\* `not in_ref and _open_idx is False`: no run is open at a reference gap
OpensRun(st, in_ref) == ~in_ref /\ st.open = NoOpen

\* one iteration of `for i, in_ref in enumerate(ungapped)`; i is 0-based
ScanStep(st, i, in_ref) ==
  LET st1 == IF OpensRun(st, in_ref) THEN [st EXCEPT !.open = i]
             ELSE IF in_ref /\ st.open # NoOpen
                  THEN [st EXCEPT !.coords = Append(@, <<st.open, i, st.ref>>), !.open = NoOpen]
                  ELSE st
  IN IF in_ref THEN [st1 EXCEPT !.ref = @ + 1] ELSE st1

RECURSIVE ScanFrom(_, _, _)
\* the loop from column i (0-based) on
ScanFrom(st, i, ungapped) == IF i >= Len(ungapped) THEN st ELSE ScanFrom(ScanStep(st, i, ungapped[i + 1]), i + 1, ungapped)

\* insertion_coords: [start, end, ref] per run, end exclusive
InsertionCoords(ungapped) ==
  LET st == ScanFrom(ScanInit, 0, ungapped)
  IN IF st.open # NoOpen THEN Append(st.coords, <<st.open, Len(ungapped), st.ref>>) ELSE st.coords

\* seq[a:b].seq.ungap("-").ungap("N").ungap("?")
InsertedAt(row, coord) == Filter(SubSeq(row.seq, coord[1] + 1, coord[2]), {"-", "N", "?"})

RECURSIVE AddStrain(_, _, _)
\* defaultdict(list)[s].append(name) on a dict kept as a tuple of
\* [content, strains] in first-insertion order
AddStrain(groups, s, name) ==
  IF groups = <<>> THEN <<[content |-> s, strains |-> <<name>>]>>
  ELSE IF Head(groups).content = s
       THEN <<[Head(groups) EXCEPT !.strains = Append(@, name)]>> \o Tail(groups)
       ELSE <<Head(groups)>> \o AddStrain(Tail(groups), s, name)

RECURSIVE RunGroups(_, _, _, _)
\* `for seq in aln:` for one run, from row k on: rows with residues left in
\* the span are recorded under those residues
RunGroups(groups, rows, coord, k) ==
  IF k > Len(rows) THEN groups
  ELSE LET s == InsertedAt(rows[k], coord)
       IN RunGroups(IF Len(s) > 0 THEN AddStrain(groups, s, rows[k].name) ELSE groups, rows, coord, k + 1)

\* the printed summary and the csv header of one run:
\* "{}bp insertion at ref position {}".format(end - start, ref + 1)
RunReport(rows, coord) ==
  LET groups == RunGroups(<<>>, rows, coord, 1)
  IN [bp |-> coord[2] - coord[1], pos |-> coord[3] + 1, groups |-> groups, warning |-> groups = <<>>]

RECURSIVE Concat(_)
\* the tuples of a tuple, joined in order
Concat(ss) == IF ss = <<>> THEN <<>> ELSE Head(ss) \o Concat(Tail(ss))

RECURSIVE AddUnseen(_, _)
\* dict keys in first-insertion order: names appended to order unless present
AddUnseen(order, names) ==
  IF names = <<>> THEN order
  ELSE AddUnseen(IF Head(names) \in Range(order) THEN order ELSE Append(order, Head(names)), Tail(names))

\* strain_data[strain][idx]: the last content recorded for the strain in the
\* run, or the empty cell
StrainCell(run, strain) ==
  LET hits == {g \in 1..Len(run.groups) : strain \in Range(run.groups[g].strains)}
  IN IF hits = {} THEN <<>> ELSE run.groups[CHOOSE g \in hits : \A h \in hits : h <= g].content

\* the csv body: one line per strain that contributed to a run
StrainTable(runs) ==
  LET touched == Concat([r \in 1..Len(runs) |-> Concat([g \in 1..Len(runs[r].groups) |-> runs[r].groups[g].strains])])
      order == AddUnseen(<<>>, touched)
  IN [k \in 1..Len(order) |-> [strain |-> order[k], cells |-> [r \in 1..Len(runs) |-> StrainCell(runs[r], order[k])]]]

\* what analyse_insertions prints and writes: the runs, one summary and one
\* csv column per run, one csv line per contributing strain
AnalyseInsertions(rows, ungapped) ==
  LET coords == InsertionCoords(ungapped)
      runs == [r \in 1..Len(coords) |-> RunReport(rows, coords[r])]
  IN [coords |-> coords, runs |-> runs, table |-> StrainTable(runs)]

\* ------------------------------------------------- strip_non_reference
\* ref_array != '-'
Ungapped(seq) == [c \in 1..Len(seq) |-> seq[c] # "-"]

RECURSIVE ProjectFrom(_, _, _)
\* np.array(aln)[:, ungapped] for one row, from column c on
ProjectFrom(seq, mask, c) ==
  IF c > Len(seq) THEN <<>>
  ELSE (IF mask[c] THEN <<seq[c]>> ELSE <<>>) \o ProjectFrom(seq, mask, c + 1)

\* no column dropped
ProjectKeepingAll(seq, mask) == seq

\* one row of np.array(aln)[:, ungapped]
Project(seq, mask) == ProjectFrom(seq, mask, 1)

\* seqs = {s.name: s for s in aln}; seqs[reference]: a later row replaces an
\* earlier one of the same name
LastNamed(rows, name) == CHOOSE k \in 1..Len(rows) : rows[k].name = name /\ \A j \in 1..Len(rows) : rows[j].name = name => j <= k

\* no insertion report: analyse_insertions was not called
NoReport == [coords |-> <<>>, runs |-> <<>>, table |-> <<>>, written |-> FALSE]

\* strip_non_reference on the rows of aln: whether it raises, the mask, the
\* residues every row is given, the insertion report, the printed notes
StripNonReference(rows, ref, csv) ==
  IF ref \notin {rows[k].name : k \in 1..Len(rows)}
  THEN [raised |-> TRUE, mask |-> <<>>, seqs |-> <<>>, report |-> NoReport, notes |-> <<>>]
  ELSE LET ref_array == rows[LastNamed(rows, ref)].seq
           mask == Ungapped(ref_array)
       IN [raised |-> FALSE,
           mask |-> mask,
           seqs |-> [k \in 1..Len(rows) |-> Project(rows[k].seq, mask)],
           report |-> IF FALSE \in Range(mask) /\ csv
                      THEN AnalyseInsertions(rows, mask) @@ [written |-> TRUE]
                      ELSE NoReport,
           notes |-> (IF "-" \notin Range(ref_array) THEN <<"no gaps">> ELSE <<>>) \o <<"trimmed">>]

\* ------------------------------------------------------------------- state
VARIABLES
  pc,            \* the position of the operation under way
  notes,         \* what the operation printed
  records,       \* the heap of SeqRecord objects: object id -> record
  aln,           \* an alignment object: the object ids of its rows, in order
  aln_in,        \* the rows of aln as they were handed in (history)
  reference,     \* strip_non_reference's reference name
  insertion_csv, \* whether strip_non_reference was given a report path
  ungapped,      \* the reference column mask
  out_seqs,      \* the list strip_non_reference returned: object ids
  report,        \* what analyse_insertions printed and wrote
  applied,       \* how many times prettify_alignment has been applied to aln
  first,         \* the rows of aln after the first application (history)
  seqs,          \* run's seqs: the candidate dict, then the aligned rows
  seqs_in,       \* seqs as handed to prune_seqs_matching_alignment (history)
  ret,           \* what prune_seqs_matching_alignment returned
  existing_aln,  \* run's existing_aln: its rows, <<>> for None
  args,          \* run's command line
  ref_name,      \* run's ref_name
  ref_seq,       \* run's ref_seq: <<record>>, <<>> while unread
  existing_aln_fname,      \* the existing alignment file handed to the aligner
  seqs_to_align_fname,     \* the file of sequences handed to the aligner
  temp_files_to_remove,    \* run's cleanup list
  files,         \* the files this run has written and not deleted
  removed,       \* the files this run has deleted
  error,         \* the AlignmentError run caught, "" for none
  log            \* the pipeline steps run has taken, in order (history)

heapVars == <<records, aln, aln_in>>
trimVars == <<reference, insertion_csv, ungapped, out_seqs, report>>
prettyVars == <<applied, first>>
pruneVars == <<seqs, seqs_in, ret, existing_aln>>
runVars == <<args, ref_name, ref_seq, existing_aln_fname, seqs_to_align_fname, temp_files_to_remove, files, removed, error, log>>
vars == <<pc, notes, heapVars, trimVars, prettyVars, pruneVars, runVars>>

\* the rows of the alignment object, read through the heap
Rows == [k \in 1..Len(aln) |-> records[aln[k]]]

\* names of rows and sequences
NameRef == <<"r", "e", "f">>
NameX == <<"x">>
NameY == <<"y">>
NoName == <<>>

\* the parts of the state an operation does not have
HeapIdle == records = <<>> /\ aln = <<>> /\ aln_in = <<>>
TrimIdle == reference = NoName /\ insertion_csv = FALSE /\ ungapped = <<>> /\ out_seqs = <<>> /\ report = NoReport
PrettyIdle == applied = 0 /\ first = <<>>
PruneIdle == seqs = <<>> /\ seqs_in = <<>> /\ ret = <<>> /\ existing_aln = <<>>
RunIdle ==
  /\ args = [reference_name |-> NoName]
  /\ ref_name = NoName /\ ref_seq = <<>>
  /\ existing_aln_fname = "" /\ seqs_to_align_fname = ""
  /\ temp_files_to_remove = <<>> /\ files = {} /\ removed = {}
  /\ error = "" /\ log = <<>>

\* ------------------------------------------- strip_non_reference, called
TrimNames == {NameRef, NameX}
TrimAlphabet == {"A", "-"}

\* every alignment of n rows and w columns, names repeated or not
TrimAlignments(n, w) == {[k \in 1..n |-> Rec(names[k], residues[k])] : names \in [1..n -> TrimNames], residues \in [1..n -> SeqsOver(TrimAlphabet, w)]}

InitTrim ==
  /\ pc = "strip_non_reference"
  /\ \E n \in 1..MaxRows, w \in 1..MaxWidth : \E rows \in TrimAlignments(n, w) :
       /\ records = rows
       /\ aln = [k \in 1..Len(rows) |-> k]
       /\ aln_in = rows
  /\ reference \in TrimNames \cup {NameY}
  /\ insertion_csv \in BOOLEAN
  /\ ungapped = <<>>
  /\ out_seqs = <<>>
  /\ report = NoReport
  /\ notes = <<>>
  /\ PrettyIdle /\ PruneIdle /\ RunIdle

\* strip_non_reference(aln, reference, insertion_csv): the rows of aln are
\* given their trimmed residues (seq.seq = ...) and are themselves returned
StripNonReferenceCall ==
  /\ pc = "strip_non_reference"
  /\ LET r == StripNonReference(Rows, reference, insertion_csv)
     IN IF r.raised
        THEN /\ pc' = "raised"
             /\ UNCHANGED <<records, ungapped, out_seqs, report, notes>>
        ELSE /\ pc' = "returned"
             /\ records' = [o \in DOMAIN records |-> IF \E k \in 1..Len(aln) : aln[k] = o
                                                      THEN [records[o] EXCEPT !.seq = r.seqs[CHOOSE k \in 1..Len(aln) : aln[k] = o]]
                                                      ELSE records[o]]
             /\ ungapped' = r.mask
             /\ out_seqs' = aln
             /\ report' = r.report
             /\ notes' = r.notes
  /\ UNCHANGED <<aln, aln_in, reference, insertion_csv, prettyVars, pruneVars, runVars>>

NextTrim == StripNonReferenceCall

SpecTrim == InitTrim /\ [][NextTrim]_vars

\* the columns (1-based) where a row has a residue, not a gap
NonGapColumns(seq) == {c \in 1..Len(seq) : seq[c] # "-"}

\* the i-th smallest column of a set of columns
NthColumn(cols, i) == CHOOSE c \in cols : Cardinality({d \in cols : d < c}) = i - 1

\* a row restricted to a set of columns, left to right
RestrictedTo(seq, cols) == [i \in 1..Cardinality(cols) |-> seq[NthColumn(cols, i)]]

\* C1: whenever the reference names a row of the alignment, strip_non_reference
\* returns (does not raise) one row per input row, in the input's order and
\* with the input's identifiers, and each returned row is the input row
\* restricted to the columns where the reference row has no gap, so that its
\* width is the number of non-gap characters of the reference row.
C1_TrimProjectsOntoReference ==
  (pc \in {"returned", "raised"} /\ \E k \in 1..Len(aln_in) : aln_in[k].name = reference) =>
    /\ pc = "returned"
    /\ Len(out_seqs) = Len(aln_in)
    /\ \E r \in 1..Len(aln_in) :
         /\ aln_in[r].name = reference
         /\ LET cols == NonGapColumns(aln_in[r].seq)
            IN \A k \in 1..Len(aln_in) :
                 /\ records[out_seqs[k]].id = aln_in[k].id
                 /\ records[out_seqs[k]].name = aln_in[k].name
                 /\ Len(records[out_seqs[k]].seq) = Cardinality(cols)
                 /\ records[out_seqs[k]].seq = RestrictedTo(aln_in[k].seq, cols)

\* C1's case: a two-row alignment whose reference row has gaps and residues
\* and whose other row differs from it has been trimmed
C1_Witness ==
  /\ pc = "returned"
  /\ Len(aln_in) >= 2
  /\ TRUE \in Range(ungapped) /\ FALSE \in Range(ungapped)
  /\ \E k \in 1..Len(aln_in) : aln_in[k].name # reference /\ "-" \notin Range(aln_in[k].seq)

\* C7: after strip_non_reference has returned, every row of the alignment it
\* was given still has the residues it had, at the original width.
C7_InputNotMutated ==
  pc = "returned" => \A k \in 1..Len(aln) : records[aln[k]].seq = aln_in[k].seq

\* ------------------------------------------------ analyse_insertions, called
InsAlphabet == {"A", "N", "-"}

\* the reference row a mask comes from: a gap at every false column
MaskRow(mask) == [c \in 1..Len(mask) |-> IF mask[c] THEN "A" ELSE "-"]

InitIns ==
  /\ pc = "analyse_insertions"
  /\ ungapped \in SeqsBetween(BOOLEAN, 0, MaxMask)
  /\ \E x \in SeqsOver(InsAlphabet, Len(ungapped)) :
       /\ records = <<Rec(NameRef, MaskRow(ungapped)), Rec(NameX, x)>>
       /\ aln = <<1, 2>>
       /\ aln_in = <<Rec(NameRef, MaskRow(ungapped)), Rec(NameX, x)>>
  /\ reference = NameRef
  /\ insertion_csv = TRUE
  /\ out_seqs = <<>>
  /\ report = NoReport
  /\ notes = <<>>
  /\ PrettyIdle /\ PruneIdle /\ RunIdle

\* analyse_insertions(aln, ungapped, insertion_csv)
AnalyseInsertionsCall ==
  /\ pc = "analyse_insertions"
  /\ pc' = "analysed"
  /\ report' = AnalyseInsertions(Rows, ungapped) @@ [written |-> TRUE]
  /\ UNCHANGED <<notes, heapVars, reference, insertion_csv, ungapped, out_seqs, prettyVars, pruneVars, runVars>>

NextIns == AnalyseInsertionsCall

SpecIns == InitIns /\ [][NextIns]_vars

\* the 0-based columns of the run [start, end)
Span(coord) == coord[1]..(coord[2] - 1)

\* C9: the runs analyse_insertions collects are exactly the maximal contiguous
\* spans of false mask columns: each is a non-empty span inside [0, width) of
\* false columns with no false column next to it on either side, the spans
\* come in increasing column order without overlap, and every column is
\* either a true column or in exactly one span.
C9_RunsAreMaximalFalseSpans ==
  pc = "analysed" =>
    LET coords == report.coords
        w == Len(ungapped)
    IN /\ \A r \in 1..Len(coords) :
            /\ 0 <= coords[r][1] /\ coords[r][1] < coords[r][2] /\ coords[r][2] <= w
            /\ \A c \in Span(coords[r]) : ~ungapped[c + 1]
            /\ coords[r][1] = 0 \/ ungapped[coords[r][1]]
            /\ coords[r][2] = w \/ ungapped[coords[r][2] + 1]
       /\ \A r \in 1..(Len(coords) - 1) : coords[r][2] <= coords[r + 1][1]
       /\ \A c \in 0..(w - 1) :
            Cardinality({r \in 1..Len(coords) : c \in Span(coords[r])}) = (IF ungapped[c + 1] THEN 0 ELSE 1)

\* C9's case: a mask with a run from column 0, a run to the last column and
\* a run between them has been analysed
C9_Witness ==
  /\ pc = "analysed"
  /\ Len(report.coords) >= 3
  /\ report.coords[1][1] = 0
  /\ report.coords[Len(report.coords)][2] = Len(ungapped)

\* C10: every run is tagged with (the number of true columns strictly left of
\* its first column) - 1 and reported at that tag + 1; a run from column 0 is
\* tagged -1 and reported at position 0, every other run is reported at a
\* position from 1 to the number of true columns; the mask [T,T,F,T,T] gives
\* one 1bp run reported at position 2.
C10_RunTaggedWithPrecedingReferencePosition ==
  pc = "analysed" =>
    LET coords == report.coords
        ungappedLength == Cardinality({c \in 1..Len(ungapped) : ungapped[c]})
    IN /\ Len(report.runs) = Len(coords)
       /\ \A r \in 1..Len(coords) :
            /\ coords[r][3] = Cardinality({c \in 1..coords[r][1] : ungapped[c]}) - 1
            /\ report.runs[r].pos = coords[r][3] + 1
            /\ coords[r][1] = 0 => coords[r][3] = -1 /\ report.runs[r].pos = 0
            /\ coords[r][1] # 0 => 1 <= report.runs[r].pos /\ report.runs[r].pos <= ungappedLength
       /\ ungapped = <<TRUE, TRUE, FALSE, TRUE, TRUE>> =>
            /\ Len(report.runs) = 1
            /\ report.runs[1].bp = 1 /\ report.runs[1].pos = 2

\* C10's case: a run from column 0 and a later run behind at least two
\* reference residues have been reported
C10_Witness ==
  /\ pc = "analysed"
  /\ \E r \in 1..Len(report.runs) : report.coords[r][1] = 0
  /\ \E r \in 1..Len(report.runs) : report.runs[r].pos >= 2

\* ---------------------------------------------------- prettify_alignment
\* the prefix the aligner gives a sequence it reverse-complemented
Marker == <<"_", "R", "_">>

\* str.upper on one character
UpperChar(c) == CASE c = "a" -> "A" [] c = "c" -> "C" [] c = "g" -> "G" [] c = "t" -> "T" [] c = "n" -> "N" [] OTHER -> c

\* seq.seq.upper()
Upper(seq) == [c \in 1..Len(seq) |-> UpperChar(seq[c])]

\* s[3:] whatever s starts with
StripAlways(s) == DropFirst(s, 3)

\* `if s.startswith("_R_"): s = s[3:]`
StripMarker(s) == IF StartsWith(s, Marker) THEN DropFirst(s, 3) ELSE s

\* the body of `for seq in aln:` on one record
PrettifyRecord(r) == [id |-> StripMarker(r.id), name |-> StripMarker(r.name), description |-> StripMarker(r.description), seq |-> Upper(r.seq)]

\* what the loop prints: one note per record whose id carried the marker
PrettifyNotes(rows) == Concat([k \in 1..Len(rows) |-> IF StartsWith(rows[k].id, Marker) THEN <<<<"reverse-complemented", StripMarker(rows[k].id)>>>> ELSE <<>>])

\* prettify_alignment(aln): the rows after the call
PrettifyAlignment(rows) == [k \in 1..Len(rows) |-> PrettifyRecord(rows[k])]

\* identifiers and descriptions with the marker zero, one and two times, and
\* one that only begins like the marker
MarkedNames == {NameX, Marker \o NameX, Marker \o Marker \o NameX, <<"_", "R">>}
PrettyResidues == {<<"a", "-">>, <<"A", "c">>}

\* AlignIO.read gives name the id; the description is drawn on its own
PrettyRecords == {[id |-> i, name |-> i, description |-> d, seq |-> r] : i \in MarkedNames, d \in MarkedNames, r \in PrettyResidues}

InitPretty ==
  /\ pc = "prettify_alignment"
  /\ \E rows \in SeqsBetween(PrettyRecords, 1, MaxRows) :
       /\ records = rows
       /\ aln = [k \in 1..Len(rows) |-> k]
       /\ aln_in = rows
  /\ applied = 0
  /\ first = <<>>
  /\ notes = <<>>
  /\ TrimIdle /\ PruneIdle /\ RunIdle

\* prettify_alignment(aln), in place; called once and once again
PrettifyAlignmentCall ==
  /\ pc = "prettify_alignment"
  /\ applied < 2
  /\ LET after == PrettifyAlignment(Rows)
     IN /\ records' = [o \in DOMAIN records |-> IF \E k \in 1..Len(aln) : aln[k] = o
                                                 THEN after[CHOOSE k \in 1..Len(aln) : aln[k] = o]
                                                 ELSE records[o]]
        /\ first' = IF applied = 0 THEN after ELSE first
  /\ notes' = notes \o PrettifyNotes(Rows)
  /\ applied' = applied + 1
  /\ UNCHANGED <<pc, aln, aln_in, trimVars, pruneVars, runVars>>

NextPretty == PrettifyAlignmentCall

SpecPretty == InitPretty /\ [][NextPretty]_vars

\* C6 as stated: after a second application every row has the residues,
\* identifier, name and description the first application left.
C6_PrettifyIdempotent == applied = 2 => Rows = first

\* a field that begins with the marker twice
DoublyMarked(s) == StartsWith(s, Marker \o Marker)

\* C6 amended: a second application leaves every row's residues as the first
\* left them, and leaves the identifier, name and description as the first
\* left them in every alignment none of whose identifiers, names or
\* descriptions begins with the marker twice.
C6_PrettifyIdempotentUnlessDoublyMarked ==
  applied = 2 =>
    /\ \A k \in 1..Len(aln) : Rows[k].seq = first[k].seq
    /\ (\A k \in 1..Len(aln_in) : ~DoublyMarked(aln_in[k].id) /\ ~DoublyMarked(aln_in[k].name) /\ ~DoublyMarked(aln_in[k].description))
         => Rows = first

\* C6's case: an alignment with lower-case residues and a once-marked
\* identifier, none doubly marked, has been prettified twice
C6_Witness ==
  /\ applied = 2
  /\ \A k \in 1..Len(aln_in) : ~DoublyMarked(aln_in[k].id) /\ ~DoublyMarked(aln_in[k].name) /\ ~DoublyMarked(aln_in[k].description)
  /\ \E k \in 1..Len(aln_in) : StartsWith(aln_in[k].id, Marker) /\ "a" \in Range(aln_in[k].seq)
  /\ \E k \in 1..Len(aln_in) : StartsWith(aln_in[k].description, Marker) /\ ~StartsWith(aln_in[k].id, Marker)

\* ------------------------------------------ prune_seqs_matching_alignment
\* a dict of records is the tuple of its values in insertion order; a value's
\* key is its name (read_sequences: seqs[record.name] = record)
Keys(d) == {d[k].name : k \in 1..Len(d)}

\* the names of all rows but the last
ExcludeNamesSkippingLast(rows) == {rows[k].name : k \in 1..(Len(rows) - 1)}

\* exclude_names = {s.name for s in aln}
ExcludeNames(rows) == {rows[k].name : k \in 1..Len(rows)}

RECURSIVE PruneFrom(_, _, _, _)
\* `for name, seq in seqs.items():` from entry k on
PruneFrom(acc, d, exclude, k) ==
  IF k > Len(d) THEN acc
  ELSE PruneFrom(IF d[k].name \in exclude
                 THEN [acc EXCEPT !.notes = Append(@, <<"excluding", d[k].name>>)]
                 ELSE [acc EXCEPT !.ret = Append(@, d[k])],
                 d, exclude, k + 1)

\* prune_seqs_matching_alignment(seqs, aln): the new dict and the notes
PruneSeqsMatchingAlignment(d, rows) == PruneFrom([ret |-> <<>>, notes |-> <<>>], d, ExcludeNames(rows), 1)

PruneNames == {NameRef, NameX, NameY}
PruneResidues == {<<"A">>, <<"C">>}

\* the dicts of at most n records, keys distinct
Dicts(names, residues, n) == {d \in SeqsBetween({Rec(nm, r) : nm \in names, r \in residues}, 0, n) : \A j, k \in 1..Len(d) : d[j].name = d[k].name => j = k}

InitPrune ==
  /\ pc = "prune_seqs_matching_alignment"
  /\ seqs \in Dicts(PruneNames, PruneResidues, MaxRows)
  /\ seqs_in = seqs
  /\ existing_aln \in SeqsBetween({Rec(nm, r) : nm \in PruneNames, r \in PruneResidues}, 1, MaxRows)
  /\ aln_in = existing_aln
  /\ ret = <<>>
  /\ notes = <<>>
  /\ records = <<>> /\ aln = <<>>
  /\ TrimIdle /\ PrettyIdle /\ RunIdle

\* ret = prune_seqs_matching_alignment(seqs, existing_aln): nothing is
\* assigned to the arguments
PruneCall ==
  /\ pc = "prune_seqs_matching_alignment"
  /\ pc' = "pruned"
  /\ LET r == PruneSeqsMatchingAlignment(seqs, existing_aln)
     IN ret' = r.ret /\ notes' = r.notes
  /\ UNCHANGED <<heapVars, trimVars, prettyVars, seqs, seqs_in, existing_aln, runVars>>

NextPrune == PruneCall

SpecPrune == InitPrune /\ [][NextPrune]_vars

\* C2: prune_seqs_matching_alignment(C, E) returns exactly the entries of C
\* whose identifier names no row of E, each with the record it had, prints
\* exactly one exclusion note per removed identifier, and leaves C and E as
\* they were.
C2_PruneIsDifferenceByIdentifier ==
  pc = "pruned" =>
    LET rowNames == {aln_in[k].name : k \in 1..Len(aln_in)}
        removed_ids == Keys(seqs_in) \cap rowNames
    IN /\ Range(ret) = {e \in Range(seqs_in) : e.name \notin rowNames}
       /\ Len(ret) = Cardinality(Keys(seqs_in) \ rowNames)
       /\ Len(notes) = Cardinality(removed_ids)
       /\ \A nm \in removed_ids : Cardinality({k \in 1..Len(notes) : notes[k] = <<"excluding", nm>>}) = 1
       /\ seqs = seqs_in
       /\ existing_aln = aln_in

\* C2's case: a candidate set with an entry E names (in a row that is not
\* its first) and an entry E does not name has been pruned
C2_Witness ==
  /\ pc = "pruned"
  /\ Len(ret) >= 1
  /\ Len(notes) >= 1
  /\ Len(aln_in) >= 2

\* ------------------------------------------------------------------- run
\* read_sequences' loop over the records of the files: the dict, or the
\* duplicate it raises on
RECURSIVE ReadFrom(_, _, _)
ReadFrom(d, recs, k) ==
  IF k > Len(recs) THEN [raised |-> FALSE, seqs |-> d]
  ELSE LET same == {j \in 1..Len(d) : d[j].name = recs[k].name}
       IN IF same = {} THEN ReadFrom(Append(d, recs[k]), recs, k + 1)
          ELSE IF \E j \in same : d[j].seq # recs[k].seq THEN [raised |-> TRUE, seqs |-> <<>>]
          ELSE ReadFrom([j \in 1..Len(d) |-> IF j \in same THEN recs[k] ELSE d[j]], recs, k + 1)

\* read_sequences(*fnames) on the records the files hold
ReadSequences(recs) == ReadFrom(<<>>, recs, 1)

\* ensure_reference_strain_present: whether it raises
EnsureReferenceStrainPresent(name, existing, d) ==
  IF existing # <<>> THEN name \notin {existing[k].name : k \in 1..Len(existing)}
  ELSE name \notin Keys(d)

\* len(ref_seq) < existing_aln.get_alignment_length()
LengthShorter(ref, existing) == Len(ref.seq) < Len(existing[1].seq)

\* len(ref_seq) != existing_aln.get_alignment_length()
LengthMismatch(ref, existing) == Len(ref.seq) # Len(existing[1].seq)

RECURSIVE AddNames(_, _)
\* check_duplicates' add() over the names of the samples in order: whether a
\* name comes that is already in names
AddNames(names, todo) ==
  IF todo = <<>> THEN FALSE
  ELSE IF Head(todo) \in names THEN TRUE
  ELSE AddNames(names \cup {Head(todo)}, Tail(todo))

\* check_duplicates(existing_aln, ref_name, seqs): whether it raises.  A
\* falsy sample (None, an empty dict) is skipped, an alignment gives its
\* rows' names, a str itself, a dict its keys
CheckDuplicates(existing, name, d) ==
  AddNames({}, [k \in 1..Len(existing) |-> existing[k].name]
               \o (IF name = NoName THEN <<>> ELSE <<name>>)
               \o [k \in 1..Len(d) |-> d[k].name])

\* [seq for seq in seqs if seq.name != reference_name]
RemoveReferenceSequence(rows, name) == LET Kept(r) == r.name # name IN SelectSeq(rows, Kept)

\* _seq.replace('-', 'N') on every row
MakeGapsAmbiguous(rows) == [k \in 1..Len(rows) |-> [rows[k] EXCEPT !.seq = [c \in 1..Len(@) |-> IF @[c] = "-" THEN "N" ELSE @[c]]]]

\* os.remove on the files of the cleanup list, on every way out of run
RemovedOnReturnAlways(list) == Range(list)

\* what run has deleted when it returns 1: `return 1` comes before the loop
\* over temp_files_to_remove
RemovedOnError(list) == {}

\* the file names run builds from args.existing_alignment and args.output
ExistingFile == "existing.fasta"
ExistingRefFile == "existing.fasta.ref.fasta"
ToAlignFile == "alignment.fasta.to_align.fasta"
NewSeqsToAlignFile == "alignment.fasta.new_seqs_to_align.fasta"
OutputFile == "alignment.fasta"
LogFile == "alignment.fasta.log"
PreAlignerFile == "alignment.fasta.pre_aligner.fasta"
PostAlignerFile == "alignment.fasta.post_aligner.fasta"
InsertionsFile == "alignment.fasta.insertions.csv"

\* what the files of a run may hold
RunNames == {NameRef, NameX}
RunResidues == {<<"A">>, <<"C">>}
AllA(w) == [c \in 1..w |-> "A"]
CandidateFiles == SeqsBetween({Rec(nm, r) : nm \in RunNames, r \in RunResidues}, 0, MaxRows)
ExistingAlignments == UNION {{[k \in 1..n |-> Rec(names[k], AllA(w))] : names \in [1..n -> RunNames]} : n \in 1..MaxRows, w \in 1..MaxLen}
\* a fasta reference has its id as name, a genbank one its locus
ReferenceFiles == {[id |-> i, name |-> IF genbank THEN <<"L">> ELSE i, description |-> i, seq |-> AllA(w)] : i \in {NameRef, NameY}, genbank \in BOOLEAN, w \in 1..MaxLen}

\* the aligner is opaque.  Of what it may write, three outputs on the rows
\* it was given: them in lower case; them with a gap in the first row and the
\* last row reverse-complemented; them without the first row
AlignerOutputs(given) ==
  IF given = <<>> THEN {}
  ELSE LET n == Len(given)
           plain == [k \in 1..n |-> Rec(given[k].id, <<"a", "c">>)]
           gapped == [k \in 1..n |-> Rec(IF k = n THEN Marker \o given[k].id ELSE given[k].id, IF k = 1 THEN <<"a", "-">> ELSE <<"a", "c">>)]
       IN {plain, gapped} \cup (IF n >= 2 THEN {Tail(plain)} ELSE {})

WriteOutcomes == {"ok", "error", "crash"}
CopyOutcomes == {"ok", "crash"}

InitRun ==
  /\ pc = "check_arguments"
  /\ args \in [reference_name : {NoName, NameRef, NameX}, reference_sequence : BOOLEAN, existing_alignment : BOOLEAN,
               remove_reference : BOOLEAN, fill_gaps : BOOLEAN, debug : BOOLEAN]
  /\ seqs = <<>> /\ seqs_in = <<>> /\ ret = <<>> /\ existing_aln = <<>>
  /\ ref_name = NoName /\ ref_seq = <<>>
  /\ existing_aln_fname = "" /\ seqs_to_align_fname = ""
  /\ temp_files_to_remove = <<>> /\ files = {} /\ removed = {}
  /\ error = "" /\ log = <<>> /\ notes = <<>>
  /\ HeapIdle /\ TrimIdle /\ PrettyIdle

\* line 46: check_arguments(args)
RunCheckArguments ==
  /\ pc = "check_arguments"
  /\ IF args.reference_name # NoName /\ args.reference_sequence
     THEN pc' = "raised" /\ error' = "both reference name and sequence"
     ELSE IF args.remove_reference /\ ~(args.reference_name # NoName \/ args.reference_sequence)
     THEN pc' = "raised" /\ error' = "remove reference without reference"
     ELSE pc' = "read_sequences" /\ error' = error
  /\ log' = Append(log, "check_arguments")
  /\ UNCHANGED <<notes, heapVars, trimVars, prettyVars, pruneVars, args, ref_name, ref_seq, existing_aln_fname, seqs_to_align_fname, temp_files_to_remove, files, removed>>

\* line 47: seqs = read_sequences(*args.sequences)
RunReadSequences ==
  /\ pc = "read_sequences"
  /\ \/ \E recs \in CandidateFiles :
          LET r == ReadSequences(recs)
          IN IF r.raised
             THEN pc' = "raised" /\ error' = "duplicate input strains" /\ seqs' = seqs
             ELSE pc' = "read_alignment" /\ error' = error /\ seqs' = r.seqs
     \/ pc' = "raised" /\ error' = "cannot read sequences" /\ seqs' = seqs
  /\ log' = Append(log, "read_sequences")
  /\ UNCHANGED <<notes, heapVars, trimVars, prettyVars, seqs_in, ret, existing_aln, args, ref_name, ref_seq, existing_aln_fname, seqs_to_align_fname, temp_files_to_remove, files, removed>>

\* line 48: existing_aln = read_alignment(...) if args.existing_alignment else None
RunReadAlignment ==
  /\ pc = "read_alignment"
  /\ IF args.existing_alignment
     THEN \/ \E rows \in ExistingAlignments : pc' = "ensure_reference" /\ error' = error /\ existing_aln' = rows
          \/ pc' = "raised" /\ error' = "cannot read alignment" /\ existing_aln' = existing_aln
     ELSE pc' = "ensure_reference" /\ error' = error /\ existing_aln' = <<>>
  /\ aln_in' = existing_aln'
  /\ log' = Append(log, "read_alignment")
  /\ UNCHANGED <<notes, records, aln, trimVars, prettyVars, seqs, seqs_in, ret, args, ref_name, ref_seq, existing_aln_fname, seqs_to_align_fname, temp_files_to_remove, files, removed>>

\* lines 51-53: ref_name = args.reference_name; ensure_reference_strain_present
RunEnsureReference ==
  /\ pc = "ensure_reference"
  /\ ref_name' = args.reference_name
  /\ IF args.reference_name # NoName /\ EnsureReferenceStrainPresent(args.reference_name, existing_aln, seqs)
     THEN pc' = "raised" /\ error' = "reference name not found"
     ELSE pc' = "read_reference" /\ error' = error
  /\ log' = Append(log, "ensure_reference")
  /\ UNCHANGED <<notes, heapVars, trimVars, prettyVars, pruneVars, args, ref_seq, existing_aln_fname, seqs_to_align_fname, temp_files_to_remove, files, removed>>

\* lines 56-60 and 65-66: with an existing alignment and a reference file,
\* read the reference and compare its length with the alignment's
RunReadReference ==
  /\ pc = "read_reference"
  /\ IF existing_aln # <<>> /\ args.reference_sequence
     THEN /\ existing_aln_fname' = ExistingRefFile
          /\ \/ \E ref \in ReferenceFiles :
                  /\ ref_seq' = <<ref>>
                  /\ IF LengthMismatch(ref, existing_aln)
                     THEN pc' = "raised" /\ error' = "length mismatch"
                     ELSE pc' = "append_reference" /\ error' = error
             \/ pc' = "raised" /\ error' = "cannot read reference" /\ ref_seq' = ref_seq
     ELSE /\ existing_aln_fname' = IF args.existing_alignment THEN ExistingFile ELSE ""
          /\ pc' = "to_align" /\ error' = error /\ ref_seq' = ref_seq
  /\ log' = Append(log, "read_reference")
  /\ UNCHANGED <<notes, heapVars, trimVars, prettyVars, pruneVars, args, ref_name, seqs_to_align_fname, temp_files_to_remove, files, removed>>

\* lines 61-64: append the reference to the existing alignment, write it,
\* remember the file, take the reference's id as ref_name
RunAppendReference ==
  /\ pc = "append_reference"
  /\ existing_aln' = Append(existing_aln, ref_seq[1])
  /\ \E w \in WriteOutcomes :
       /\ pc' = (CASE w = "ok" -> "to_align" [] w = "error" -> "raised" [] w = "crash" -> "crashed")
       /\ error' = IF w = "error" THEN "could not write" ELSE error
       /\ files' = IF w = "ok" THEN files \cup {existing_aln_fname} ELSE files
       /\ temp_files_to_remove' = IF w = "ok" THEN Append(temp_files_to_remove, existing_aln_fname) ELSE temp_files_to_remove
       /\ ref_name' = IF w = "ok" THEN ref_seq[1].id ELSE ref_name
  /\ log' = Append(log, "append_reference")
  /\ UNCHANGED <<notes, heapVars, trimVars, prettyVars, seqs, seqs_in, ret, args, ref_seq, existing_aln_fname, seqs_to_align_fname, removed>>

\* the rows the aligner is handed: the existing alignment (with the reference
\* if it was appended), the reference if it was put first, the candidates
GivenToAligner == existing_aln \o (IF args.reference_sequence /\ existing_aln = <<>> THEN ref_seq ELSE <<>>) \o seqs

\* lines 70-83: write the file of sequences to align and remember it; with
\* an existing alignment the candidates are pruned first
RunToAlign ==
  /\ pc = "to_align"
  /\ \E w \in WriteOutcomes :
       LET wpc == (CASE w = "ok" -> "check_duplicates" [] w = "error" -> "raised" [] w = "crash" -> "crashed")
           werror == IF w = "error" THEN "could not write" ELSE error
           fname == IF existing_aln # <<>> THEN NewSeqsToAlignFile ELSE ToAlignFile
       IN /\ seqs_to_align_fname' = fname
          /\ IF args.reference_sequence /\ existing_aln = <<>>
             THEN /\ UNCHANGED <<seqs, seqs_in, ret, notes>>
                  /\ \/ \E ref \in ReferenceFiles :
                          /\ ref_seq' = <<ref>>
                          /\ pc' = wpc /\ error' = werror
                          /\ ref_name' = IF w = "ok" THEN ref.id ELSE ref_name
                          /\ files' = IF w = "ok" THEN files \cup {fname} ELSE files
                          /\ temp_files_to_remove' = IF w = "ok" THEN Append(temp_files_to_remove, fname) ELSE temp_files_to_remove
                          /\ log' = log \o <<"read_reference", "write_to_align">>
                     \/ /\ w = "ok"
                        /\ pc' = "raised" /\ error' = "cannot read reference"
                        /\ log' = Append(log, "read_reference")
                        /\ UNCHANGED <<ref_seq, ref_name, files, temp_files_to_remove>>
             ELSE /\ IF existing_aln # <<>>
                     THEN LET r == PruneSeqsMatchingAlignment(seqs, existing_aln)
                          IN /\ seqs_in' = seqs /\ ret' = r.ret /\ seqs' = r.ret
                             /\ notes' = notes \o r.notes
                             /\ log' = log \o <<"prune", "write_to_align">>
                     ELSE /\ UNCHANGED <<seqs, seqs_in, ret, notes>>
                          /\ log' = Append(log, "write_to_align")
                  /\ pc' = wpc /\ error' = werror
                  /\ files' = IF w = "ok" THEN files \cup {fname} ELSE files
                  /\ temp_files_to_remove' = IF w = "ok" THEN Append(temp_files_to_remove, fname) ELSE temp_files_to_remove
                  /\ UNCHANGED <<ref_seq, ref_name>>
  /\ UNCHANGED <<heapVars, trimVars, prettyVars, existing_aln, args, existing_aln_fname, removed>>

\* line 85: check_duplicates(existing_aln, ref_name, seqs)
RunCheckDuplicates ==
  /\ pc = "check_duplicates"
  /\ IF CheckDuplicates(existing_aln, ref_name, seqs)
     THEN pc' = "raised" /\ error' = "duplicate strains"
     ELSE pc' = "align" /\ error' = error
  /\ log' = Append(log, "check_duplicates")
  /\ UNCHANGED <<notes, heapVars, trimVars, prettyVars, pruneVars, args, ref_name, ref_seq, existing_aln_fname, seqs_to_align_fname, temp_files_to_remove, files, removed>>

\* lines 88-95: the debug copy of the aligner's input, then the aligner, whose
\* shell redirections create the output and the log whether it succeeds or not
RunAlign ==
  /\ pc = "align"
  /\ IF args.debug /\ existing_aln = <<>>
     THEN \E c \in CopyOutcomes :
            IF c = "crash"
            THEN pc' = "crashed" /\ error' = error /\ files' = files /\ log' = Append(log, "copy")
            ELSE \E success \in BOOLEAN :
                   /\ pc' = IF success THEN "read_output" ELSE "raised"
                   /\ error' = IF success THEN error ELSE "error during alignment"
                   /\ files' = files \cup {PreAlignerFile, OutputFile, LogFile}
                   /\ log' = log \o <<"copy", "aligner">>
     ELSE \E success \in BOOLEAN :
            /\ pc' = IF success THEN "read_output" ELSE "raised"
            /\ error' = IF success THEN error ELSE "error during alignment"
            /\ files' = files \cup {OutputFile, LogFile}
            /\ log' = Append(log, "aligner")
  /\ UNCHANGED <<notes, heapVars, trimVars, prettyVars, pruneVars, args, ref_name, ref_seq, existing_aln_fname, seqs_to_align_fname, temp_files_to_remove, removed>>

\* lines 98-105: the debug copy of the aligner's output, seqs =
\* read_alignment(args.output), prettify_alignment(seqs)
RunReadOutput ==
  /\ pc = "read_output"
  /\ \E c \in (IF args.debug THEN CopyOutcomes ELSE {"none"}) :
       IF c = "crash"
       THEN pc' = "crashed" /\ UNCHANGED <<error, files, seqs, notes>>
       ELSE /\ files' = IF c = "ok" THEN files \cup {PostAlignerFile} ELSE files
            /\ \/ \E rows \in AlignerOutputs(GivenToAligner) :
                    /\ seqs' = PrettifyAlignment(rows)
                    /\ notes' = notes \o PrettifyNotes(rows)
                    /\ pc' = "finish" /\ error' = error
               \/ pc' = "raised" /\ error' = "cannot read alignment" /\ UNCHANGED <<seqs, notes>>
  /\ log' = Append(log, "read_output")
  /\ UNCHANGED <<heapVars, trimVars, prettyVars, seqs_in, ret, existing_aln, args, ref_name, ref_seq, existing_aln_fname, seqs_to_align_fname, temp_files_to_remove, removed>>

\* lines 109-118: trim to the reference and write, fill the gaps, write
RunFinish ==
  /\ pc = "finish"
  /\ LET r == StripNonReference(seqs, ref_name, TRUE)
         stripped == [k \in 1..Len(seqs) |-> [seqs[k] EXCEPT !.seq = r.seqs[k]]]
         trimmed == IF ref_name = NoName THEN seqs
                    ELSE IF args.remove_reference THEN RemoveReferenceSequence(stripped, ref_name) ELSE stripped
         final == IF args.fill_gaps THEN MakeGapsAmbiguous(trimmed) ELSE trimmed
         csv == IF ref_name # NoName /\ ~r.raised /\ r.report.written THEN {InsertionsFile} ELSE {}
     IN IF ref_name # NoName /\ r.raised
        THEN pc' = "raised" /\ error' = "reference not found in alignment" /\ UNCHANGED <<seqs, notes, files, report>>
        ELSE \E w1 \in (IF ref_name # NoName THEN WriteOutcomes ELSE {"none"}), w2 \in WriteOutcomes :
               /\ report' = IF ref_name # NoName THEN r.report ELSE report
               /\ notes' = IF ref_name # NoName THEN notes \o r.notes ELSE notes
               /\ files' = files \cup csv
               /\ IF w1 \in {"error", "crash"}
                  THEN /\ w2 = "ok"
                       /\ seqs' = trimmed
                       /\ pc' = IF w1 = "error" THEN "raised" ELSE "crashed"
                       /\ error' = IF w1 = "error" THEN "could not write" ELSE error
                  ELSE /\ seqs' = final
                       /\ pc' = (CASE w2 = "ok" -> "cleanup" [] w2 = "error" -> "raised" [] w2 = "crash" -> "crashed")
                       /\ error' = IF w2 = "error" THEN "could not write" ELSE error
  /\ log' = Append(log, "finish")
  /\ UNCHANGED <<heapVars, reference, insertion_csv, ungapped, out_seqs, prettyVars, seqs_in, ret, existing_aln, args, ref_name, ref_seq, existing_aln_fname, seqs_to_align_fname, temp_files_to_remove, removed>>

\* lines 121-123: except AlignmentError: print, return 1
RunCatch ==
  /\ pc = "raised"
  /\ pc' = "return 1"
  /\ notes' = Append(notes, <<"error", error>>)
  /\ removed' = RemovedOnError(temp_files_to_remove)
  /\ files' = files \ removed'
  /\ UNCHANGED <<heapVars, trimVars, prettyVars, pruneVars, args, ref_name, ref_seq, existing_aln_fname, seqs_to_align_fname, temp_files_to_remove, error, log>>

\* lines 126-127: os.remove every file of the cleanup list; run returns None
RunCleanup ==
  /\ pc = "cleanup"
  /\ pc' = "return None"
  /\ removed' = Range(temp_files_to_remove)
  /\ files' = files \ removed'
  /\ log' = Append(log, "cleanup")
  /\ UNCHANGED <<notes, heapVars, trimVars, prettyVars, pruneVars, args, ref_name, ref_seq, existing_aln_fname, seqs_to_align_fname, temp_files_to_remove, error>>

NextRun ==
  \/ RunCheckArguments
  \/ RunReadSequences
  \/ RunReadAlignment
  \/ RunEnsureReference
  \/ RunReadReference
  \/ RunAppendReference
  \/ RunToAlign
  \/ RunCheckDuplicates
  \/ RunAlign
  \/ RunReadOutput
  \/ RunFinish
  \/ RunCatch
  \/ RunCleanup

SpecRun == InitRun /\ [][NextRun]_vars

\* the reference is given by name only
NameMode == args.reference_name # NoName /\ ~args.reference_sequence

\* no two rows (or entries) carry one name
DistinctNames(rows) == \A j, k \in 1..Len(rows) : rows[j].name = rows[k].name => j = k

\* run has stopped on an AlignmentError before it called the aligner
FailedBeforeAligner == pc \in {"raised", "return 1"} /\ "aligner" \notin Range(log)

\* the named reference is in the collection it has to be in: the existing
\* alignment if one is supplied, the candidates otherwise
ReferencePresent ==
  IF args.existing_alignment THEN args.reference_name \in {existing_aln[k].name : k \in 1..Len(existing_aln)}
  ELSE args.reference_name \in Keys(seqs)

\* C3: with the reference given by name only, a run whose files can be read
\* and written reaches the aligner only if the name is in the required
\* collection, and when it is there neither the reference resolution nor
\* check_duplicates(existing_aln, ref_name, seqs) stops the run.
C3_NameModeFailsOnlyWhenAbsent ==
  NameMode =>
    /\ "aligner" \in Range(log) => ReferencePresent
    /\ (FailedBeforeAligner /\ error \in {"reference name not found", "duplicate strains"} /\ DistinctNames(existing_aln))
         => ~ReferencePresent

\* the candidates as they were read
Candidates == IF "prune" \in Range(log) THEN seqs_in ELSE seqs

\* C4: with a reference sequence as long as the existing alignment is wide,
\* whose identifier is in neither the alignment nor the candidates, the
\* reference is appended to the alignment and a run whose files can be read
\* and written goes on through pruning and check_duplicates to the aligner.
C4_AppendedReferenceReachesAligner ==
  (/\ args.reference_sequence /\ "append_reference" \in Range(log)
   /\ ref_seq[1].id \notin {aln_in[k].name : k \in 1..Len(aln_in)} \cup Keys(Candidates)
   /\ DistinctNames(aln_in)
   /\ FailedBeforeAligner)
    => error = "could not write"

\* C5: with an existing alignment and a reference sequence of another length
\* run stops on the length-mismatch error: the reference is not appended, the
\* candidates are not pruned, no file is written or deleted, the aligner is not
\* called, and what is left is to return 1.
C5_LengthMismatchFailsBeforeMerge ==
  (existing_aln # <<>> /\ args.reference_sequence /\ ref_seq # <<>> /\ Len(ref_seq[1].seq) # Len(aln_in[1].seq)) =>
    /\ pc \in {"raised", "return 1"}
    /\ error = "length mismatch"
    /\ existing_aln = aln_in
    /\ files = {} /\ removed = {} /\ temp_files_to_remove = <<>>
    /\ Range(log) \cap {"append_reference", "prune", "write_to_align", "aligner"} = {}

\* C5's case: a run has returned 1 on a reference longer than the existing
\* alignment is wide
C5_Witness ==
  /\ pc = "return 1"
  /\ error = "length mismatch"
  /\ Len(ref_seq[1].seq) > Len(aln_in[1].seq)

\* what C8 says of every state of a run
CleanupListInvariant ==
  /\ Range(temp_files_to_remove) \subseteq {ExistingRefFile, ToAlignFile, NewSeqsToAlignFile}
  /\ Range(temp_files_to_remove) \subseteq files \cup removed
  /\ removed # {} <=> pc = "return None"
  /\ pc = "return None" => removed = Range(temp_files_to_remove) /\ files \cap removed = {} /\ error = "" /\ "cleanup" \in Range(log)
  /\ pc = "return 1" => error # "" /\ Range(temp_files_to_remove) \subseteq files
  /\ pc = "crashed" => Range(temp_files_to_remove) \subseteq files

\* C8: the cleanup list only grows, by the name of a file that has been
\* written; its files are deleted exactly when every step of the pipeline
\* has completed, and a run that returns 1 has deleted none.
C8_CleanupOnlyAfterSuccess ==
  /\ []CleanupListInvariant
  /\ [][/\ Len(temp_files_to_remove') >= Len(temp_files_to_remove)
        /\ SubSeq(temp_files_to_remove', 1, Len(temp_files_to_remove)) = temp_files_to_remove
        /\ \A k \in (Len(temp_files_to_remove) + 1)..Len(temp_files_to_remove') : temp_files_to_remove'[k] \in files']_vars

\* C8's case: a run with both temporary files has completed and deleted them
C8_Witness ==
  /\ pc = "return None"
  /\ Len(temp_files_to_remove) = 2
  /\ removed = {ExistingRefFile, NewSeqsToAlignFile}

====
